---- MODULE Spec2Model ----
(***************************************************************************)
(* A model of the prompt/resumption engine of libmprompt                   *)
(* (src/src/mprompt/mprompt.c): the prompt chain, link/unlink, the control *)
(* transfers PI/PR/YR/Y/RET/EXN, once- and multi-shot resumptions and      *)
(* their stack snapshots.                                                  *)
(*                                                                         *)
(* Stack 0 is the thread's own stack; stack p (p >= 1) is the gstack of    *)
(* prompt p, whose mp_prompt_t lives at its base.  A stack is the sequence *)
(* of its live frames, bottom first.  A jump buffer is the pair            *)
(* <<stack, frame index>> of the frame that did the setjmp.                *)
(*                                                                         *)
(* The library functions are operators from a machine state H (a record of *)
(* the variables, plus the value `rv` a function returns and the record of *)
(* the operation in progress) to the machine state they leave.             *)
(*                                                                         *)
(* mp_assert / mp_assert_internal exist only in a build without NDEBUG     *)
(* (mp_prompt_is_ancestor, which they call, is compiled under              *)
(* #ifndef NDEBUG).  The operators compute what the code does when it goes *)
(* on past an assertion and list in `fails` the assertions whose condition *)
(* was false; in a build with assertions (ndebug = FALSE) the operation    *)
(* stops at the first of them.  So every behaviour of a debug build is a   *)
(* prefix of one of the release build.                                     *)
(***************************************************************************)
EXTENDS Integers, Sequences, FiniteSets, TLC

\* ------------------------------------------------------------------ bounds
MaxChain   == 3      \* prompts (gstacks) ever created
MaxPrompts == 2      \* prompts created where records or exceptions are in play
MaxMres    == 2      \* multi-resumption records ever allocated
MaxSingle  == 1      \* prompts created where two values or two records are in play
MaxLone    == 1      \* records allocated where two prompts or two values are in play
MaxRefs    == 2      \* references one frame holds on its handle (dup)
MaxDepth   == 5      \* frames on one stack
MaxNest    == 3      \* mp_prompt_resume activations on all stacks together
MaxCount   == 2      \* cap on mp_mresume_t.resume_count

Unit == {1}          \* one value
Vals == {1, 2}       \* two values
Exns == {1, 2}       \* host exceptions

Prompts == 1 .. MaxChain
Stacks  == 0 .. MaxChain
Records == 1 .. MaxMres

VARIABLES
  top,      \* _mp_prompt_top (0 is NULL)
  cur,      \* the stack the thread executes on
  pr,       \* pr[p]: the fields of mp_prompt_t p
  stk,      \* stk[s]: the frames of stack s
  gfree,    \* gfree[p]: number of mp_gstack_free calls on p's gstack
  nalloc,   \* number of prompts created
  mr,       \* mr[r]: the fields of mp_mresume_t r
  mrfree,   \* mrfree[r]: number of mp_free calls on record r
  nmr,      \* number of records allocated
  gs,       \* <<snapshots made, snapshots freed>> (mp_gstack_save / mp_gsave_free)
  exn,      \* the host exception in flight (0: none)
  held,     \* handle references the client owns and has not yet used
  lk,       \* lk[p]: links of p minus unlinks of p
  cap,      \* cap[r]: the suspended chain as it was when record r was made
  entered,  \* entered[p]: number of times p's start function was invoked
  ndebug,   \* NDEBUG is defined: the assertions are compiled out
  ev        \* the operation that led to this state

vars ==
  <<top, cur, pr, stk, gfree, nalloc, mr, mrfree, nmr, gs, exn, held, lk, cap,
    entered, ndebug, ev>>

\* ------------------------------------------------------------------ types
Null == <<>>                      \* a NULL return/resume point

\* mp_resume_t*: bit 2 of the pointer tells once from multi
NoHandle == <<"none", 0>>

mp_resume_once(p) == <<"once", p>>

mp_resume_multi(r) == <<"multi", r>>

mp_resume_is_once(h) == IF h[1] = "once" THEN h[2] ELSE 0

mp_resume_is_multi(h) == IF h[1] = "multi" THEN h[2] ELSE 0

\* struct mp_prompt_s (gstack is the prompt's own index, unwind_frame is left out)
NewPrompt(p) ==
  [parent |-> 0, top |-> p, refcount |-> 1, return_point |-> Null,
   resume_point |-> Null, start_fun |-> TRUE]

NoPrompt ==
  [parent |-> 0, top |-> 0, refcount |-> 0, return_point |-> Null,
   resume_point |-> Null, start_fun |-> FALSE]

\* struct mp_mresume_s
NoRecord ==
  [refcount |-> 0, resume_count |-> 0, prompt |-> 0, save |-> <<>>,
   tail_return_point |-> Null]

\* Frames.  k = "user": client code (fn = "main", the start function of prompt
\* p, or a yield function), holding n references on handle h, m references on
\* a second handle g, and the last value v it received.  k = "resume": an activation of mp_prompt_resume for
\* prompt p with its mp_return_point_t (kind, v = arg, e = exn); t0 is the
\* prompt top when the call was made.  k = "yield": an activation of
\* mp_yield_internal towards prompt p with its mp_resume_point_t (v = result).
UserFrame(fn, p, h, n, v) ==
  [k |-> "user", fn |-> fn, p |-> p, h |-> h, n |-> n, g |-> NoHandle, m |-> 0,
   v |-> v, kind |-> "none", e |-> 0, t0 |-> 0]

ResumeFrame(p, t) ==
  [k |-> "resume", fn |-> "lib", p |-> p, h |-> NoHandle, n |-> 0, g |-> NoHandle,
   m |-> 0, v |-> 0, kind |-> "none", e |-> 0, t0 |-> t]

YieldFrame(p) ==
  [k |-> "yield", fn |-> "lib", p |-> p, h |-> NoHandle, n |-> 0, g |-> NoHandle,
   m |-> 0, v |-> 0, kind |-> "none", e |-> 0, t0 |-> 0]

\* The record of one operation: what was called, the assertions that failed in
\* it (in order), the prompts linked / unlinked / freed by it, and, when a
\* resume or prompt call returned (or rethrew) in it, the top at the call (t0)
\* and at the return (t1), the value and the exception (thrown: the one the
\* client raised, e: the one that left the call); sent: the value the client
\* passed to the call or returned, arg: the one a yield function was called
\* with.  For a resume through
\* a multi-shot record: the chain it re-entered (seen) and the chain captured
\* when the record was made (was).  misuse: the client broke a handle contract.
\* tail: the operation went through mp_prompt_resume_tail.
NoEv ==
  [op |-> "init", h |-> NoHandle, p |-> 0, fails |-> <<>>, linked |-> <<>>,
   unlinked |-> <<>>, freed |-> <<>>, ret |-> "none", t0 |-> 0, t1 |-> 0,
   v |-> 0, e |-> 0, arg |-> 0, sent |-> 0, restored |-> <<>>, thrown |-> 0, snap |-> "none",
   seen |-> <<>>, was |-> <<>>, misuse |-> FALSE, tail |-> FALSE]

\* ------------------------------------------------------- machine state
Machine ==
  [top |-> top, cur |-> cur, pr |-> pr, stk |-> stk, gfree |-> gfree,
   nalloc |-> nalloc, mr |-> mr, mrfree |-> mrfree, nmr |-> nmr, gs |-> gs,
   exn |-> exn, held |-> held, lk |-> lk, cap |-> cap, entered |-> entered,
   ev |-> NoEv, rv |-> 0]

Start(op, h) == [Machine EXCEPT !.ev.op = op, !.ev.h = h]

\* the same, for an operation the client passes the value v to
StartWith(op, h, v) == [Start(op, h) EXCEPT !.ev.sent = v]

\* mp_assert(c) / mp_assert_internal(c)
Check(H, c, label) == IF c THEN H ELSE [H EXCEPT !.ev.fails = Append(@, label)]

\* a read or write of *p after its gstack (which holds it) was freed
Deref(H, p) == Check(H, p \in Prompts /\ H.gfree[p] = 0, "use-after-free")

Depth(H) == Len(H.stk[H.cur])

\* --------------------------------------------------------- prompt chain
\* An _active_ prompt is part of a stack chain: top == NULL.
mp_prompt_is_active(H, p) == p # 0 /\ H.pr[p].top = 0

\* walk the prompt chain: mp_prompt_parent(NULL) is the current top
mp_prompt_parent(H, p) == IF p = 0 THEN H.top ELSE H.pr[p].parent

\* the prompts met walking `parent` from q (at most `fuel` steps)
RECURSIVE ChainFrom(_, _, _)
ChainFrom(H, q, fuel) ==
  IF q = 0 \/ fuel = 0 THEN <<>>
  ELSE <<q>> \o ChainFrom(H, H.pr[q].parent, fuel - 1)

Range(s) == {s[i] : i \in 1 .. Len(s)}

\* mp_prompt_is_ancestor that looks at the current top only
mp_prompt_is_ancestor_top_only(H, p) == p # 0 /\ p = mp_prompt_parent(H, 0)

\* Is a prompt an ancestor in the chain?
mp_prompt_is_ancestor(H, p) ==
  p \in Range(ChainFrom(H, mp_prompt_parent(H, 0), MaxChain))

\* mp_gstack_alloc + mp_gstack_reserve: a fresh, empty stacklet
mp_gstack_alloc(H) ==
  [H EXCEPT !.nalloc = @ + 1, !.stk[H.nalloc + 1] = <<>>, !.rv = H.nalloc + 1]

\* mp_gstack_free(g, delay): the stacklet, and the prompt at its base, are
\* gone.  The freed memory keeps the counters and links it held (what a stale
\* read would find); the frames and jump buffers in it are lost.  `freed`
\* records the prompt with its links minus unlinks at that moment.
mp_gstack_free(H, p, delay) ==
  [H EXCEPT !.gfree[p] = @ + 1, !.stk[p] = <<>>,
            !.pr[p].return_point = Null, !.pr[p].resume_point = Null,
            !.ev.freed = Append(@, <<p, H.lk[p], delay>>),
            !.lk[p] = 0]

\* Allocate a fresh (suspended) prompt; rv is the once-resumption
mp_prompt_create(H) ==
  LET H1 == mp_gstack_alloc(H)
      p  == H1.rv
  IN  [H1 EXCEPT !.pr[p] = NewPrompt(p), !.lk[p] = 0, !.rv = mp_resume_once(p)]

\* the loop of mp_prompt_free: free p and step to its parent
RECURSIVE FreeChain(_, _, _, _)
FreeChain(H, p, delay, fuel) ==
  IF p = 0 \/ fuel = 0 THEN H
  ELSE LET H1 == Check(Deref(H, p), H.pr[p].refcount = 0, "free: refcount == 0")
           parent == H1.pr[p].parent
           H2 == mp_gstack_free(H1, p, delay)
           H3 == IF parent # 0
                 THEN [Check(H2, H2.pr[parent].refcount = 1, "free: parent->refcount == 1")
                         EXCEPT !.pr[parent].refcount = @ - 1]
                 ELSE H2
       IN  FreeChain(H3, parent, delay, fuel - 1)

\* mp_prompt_free that frees the saved top only
mp_prompt_free_top_only(H, p, delay) ==
  FreeChain(Check(H, ~mp_prompt_is_active(H, p), "free: !active"),
            H.pr[p].top, delay, 1)

\* Free a prompt and drop its children
mp_prompt_free(H, p, delay) ==
  FreeChain(Check(H, ~mp_prompt_is_active(H, p), "free: !active"),
            H.pr[p].top, delay, MaxChain)

\* Decrement the refcount (and free when it becomes zero).
mp_prompt_drop_internal(H, p, delay) ==
  LET i  == H.pr[p].refcount
      H1 == [Deref(H, p) EXCEPT !.pr[p].refcount = @ - 1]
  IN  IF i <= 1 THEN mp_prompt_free(H1, p, delay) ELSE H1

mp_prompt_drop(H, p) == mp_prompt_drop_internal(H, p, FALSE)

mp_prompt_drop_delayed(H, p) == mp_prompt_drop_internal(H, p, TRUE)

\* Increment the refcount
mp_prompt_dup(H, p) == [Deref(H, p) EXCEPT !.pr[p].refcount = @ + 1, !.rv = p]

\* mp_prompt_link that does not record the parent
mp_prompt_link_no_parent(H, p, ret) ==
  LET H1 == Check(Deref(H, p), ~mp_prompt_is_active(H, p), "link: !active")
      H2 == [H1 EXCEPT !.pr[p].parent = 0,
                       !.top = H1.pr[p].top,
                       !.pr[p].top = 0,
                       !.lk[p] = @ + 1,
                       !.ev.linked = Append(@, p)]
      H3 == IF ret # Null
            THEN [H2 EXCEPT !.pr[p].return_point = ret]
            ELSE Check(H2, H2.pr[p].return_point # Null, "link: return_point != NULL")
  IN  [H3 EXCEPT !.rv = H3.pr[p].resume_point]

\* Link a suspended prompt to the current prompt chain and set the new prompt
\* top; rv is p->resume_point
mp_prompt_link(H, p, ret) ==
  LET H1 == Check(Deref(H, p), ~mp_prompt_is_active(H, p), "link: !active")
      H2 == [H1 EXCEPT !.pr[p].parent = H1.top,
                       !.top = H1.pr[p].top,
                       !.pr[p].top = 0,
                       !.lk[p] = @ + 1,
                       !.ev.linked = Append(@, p)]
      H3 == IF ret # Null
            THEN [H2 EXCEPT !.pr[p].return_point = ret]
            ELSE Check(H2, H2.pr[p].return_point # Null, "link: return_point != NULL")
  IN  [H3 EXCEPT !.rv = H3.pr[p].resume_point]

\* mp_prompt_unlink that saves p itself as the top of the suspended chain
mp_prompt_unlink_top_is_p(H, p, res) ==
  LET H1 == Check(Deref(H, p), mp_prompt_is_active(H, p), "unlink: active")
      H2 == Check(H1, mp_prompt_is_ancestor(H1, p), "unlink: ancestor")
      H3 == [H2 EXCEPT !.pr[p].top = p,
                       !.top = H2.pr[p].parent,
                       !.pr[p].parent = 0,
                       !.pr[p].resume_point = res,
                       !.lk[p] = @ - 1,
                       !.ev.unlinked = Append(@, p)]
  IN  [H3 EXCEPT !.rv = H3.pr[p].return_point]

\* mp_prompt_unlink that leaves p->parent as it is
mp_prompt_unlink_keeps_parent(H, p, res) ==
  LET H1 == Check(Deref(H, p), mp_prompt_is_active(H, p), "unlink: active")
      H2 == Check(H1, mp_prompt_is_ancestor(H1, p), "unlink: ancestor")
      H3 == [H2 EXCEPT !.pr[p].top = H2.top,
                       !.top = H2.pr[p].parent,
                       !.pr[p].resume_point = res,
                       !.lk[p] = @ - 1,
                       !.ev.unlinked = Append(@, p)]
  IN  [H3 EXCEPT !.rv = H3.pr[p].return_point]

\* mp_prompt_unlink that leaves p->top as it is (NULL)
mp_prompt_unlink_stays_active(H, p, res) ==
  LET H1 == Check(Deref(H, p), mp_prompt_is_active(H, p), "unlink: active")
      H2 == Check(H1, mp_prompt_is_ancestor(H1, p), "unlink: ancestor")
      H3 == [H2 EXCEPT !.top = H2.pr[p].parent,
                       !.pr[p].parent = 0,
                       !.pr[p].resume_point = res,
                       !.lk[p] = @ - 1,
                       !.ev.unlinked = Append(@, p)]
  IN  [H3 EXCEPT !.rv = H3.pr[p].return_point]

\* Unlink a prompt from the current chain and suspend it (the new prompt top
\* is its parent); rv is p->return_point
mp_prompt_unlink(H, p, res) ==
  LET H1 == Check(Deref(H, p), mp_prompt_is_active(H, p), "unlink: active")
      H2 == Check(H1, mp_prompt_is_ancestor(H1, p), "unlink: ancestor")
      H3 == [H2 EXCEPT !.pr[p].top = H2.top,
                       !.top = H2.pr[p].parent,
                       !.pr[p].parent = 0,
                       !.pr[p].resume_point = res,
                       !.lk[p] = @ - 1,
                       !.ev.unlinked = Append(@, p)]
  IN  [H3 EXCEPT !.rv = H3.pr[p].return_point]

\* ----------------------------------------------------- control transfer
\* the outcomes of undefined behaviour that end the run
Crashes ==
  {"crash: longjmp to a frame that is gone", "crash: NULL dereference",
   "crash: access to freed memory"}

Crash(H, label) == [H EXCEPT !.ev.fails = Append(@, label)]

\* does the jump buffer jb still belong to a live frame of kind k ?
LiveFrame(H, jb, k) ==
  /\ jb # Null
  /\ jb[2] \in 1 .. Len(H.stk[jb[1]])
  /\ H.stk[jb[1]][jb[2]].k = k

\* mp_prompt_resume returns v to its caller: its frame is popped and the
\* calling frame goes on with v
ReturnValue(H, ret, v) ==
  LET s == ret[1]
      i == ret[2]
      X == H.stk[s][i]
  IN  [H EXCEPT !.stk[s] = [SubSeq(@, 1, i - 1) EXCEPT ![i - 1].v = v],
                !.ev.ret = "value", !.ev.t0 = X.t0, !.ev.t1 = H.top,
                !.ev.v = v, !.ev.p = X.p]

\* std::rethrow_exception(ret->exn): e leaves mp_prompt_resume towards its caller
Rethrow(H, ret, e) ==
  LET s == ret[1]
      i == ret[2]
      X == H.stk[s][i]
  IN  [H EXCEPT !.stk[s] = SubSeq(@, 1, i - 1), !.exn = e,
                !.ev.ret = "exception", !.ev.t0 = X.t0, !.ev.t1 = H.top,
                !.ev.e = e, !.ev.p = X.p]

\* (ret->fun)(resume, ret->arg): the yield function starts on the stack of
\* the receiver, owning one reference on the resumption
CallYieldFun(H, h, arg) ==
  [H EXCEPT !.stk[H.cur] = Append(@, UserFrame("yfun", 0, h, 1, arg)),
            !.held = @ + 1, !.ev.arg = arg]

\* the suspended chain of p as a resume finds it: p's resume point and, from
\* p->top down to p, each prompt with the frames of its stacklet
ChainState(H, p) ==
  LET c == ChainFrom(H, H.pr[p].top, MaxChain)
  IN  <<H.pr[p].resume_point, [i \in 1 .. Len(c) |-> <<c[i], H.stk[c[i]]>>]>>

\* Execute the function that is yielded or return normally.
\* (Once read, the fields of *ret are dead until the next jump sets them
\* again: they are cleared.)
mp_prompt_exec_yield_fun(H, ret) ==
  LET X  == H.stk[ret[1]][ret[2]]
      p  == X.p
      H0 == [H EXCEPT !.stk[ret[1]][ret[2]].kind = "none",
                      !.stk[ret[1]][ret[2]].v = 0,
                      !.stk[ret[1]][ret[2]].e = 0]
      H1 == Check(H0, ~mp_prompt_is_active(H0, p), "exec_yield_fun: !active")
  IN  CASE X.kind = "YIELD_ONCE" ->
             CallYieldFun(H1, mp_resume_once(p), X.v)
        [] X.kind = "RETURN" ->
             ReturnValue(mp_prompt_drop(H1, p), ret, X.v)
        [] X.kind = "YIELD_MULTI" ->
             LET r == H1.nmr + 1
             IN  CallYieldFun(
                   [H1 EXCEPT !.nmr = r,
                              !.mr[r] = [prompt |-> p, refcount |-> 1,
                                         resume_count |-> 0, save |-> <<>>,
                                         tail_return_point |-> H1.pr[p].return_point],
                              !.cap[r] = ChainState(H1, p)],
                   mp_resume_multi(r), X.v)
        [] OTHER ->
             Rethrow(mp_prompt_drop_delayed(Check(H1, X.kind = "EXCEPTION",
                                                  "exec_yield_fun: kind == EXCEPTION"), p),
                     ret, X.e)

\* ret->kind = kind; ret->arg = arg; ret->exn = e; mp_longjmp(&ret->jmp):
\* the stack of the receiver is cut back to the mp_prompt_resume activation
\* that owns ret, whose setjmp returns a second time (P)
LongjmpReturn(H, ret, kind, arg, e) ==
  IF ~LiveFrame(H, ret, "resume")
  THEN Crash(H, "crash: longjmp to a frame that is gone")
  ELSE LET s  == ret[1]
           i  == ret[2]
           fr == [SubSeq(H.stk[s], 1, i) EXCEPT ![i].kind = kind, ![i].v = arg, ![i].e = e]
       IN  mp_prompt_exec_yield_fun([H EXCEPT !.stk[s] = fr, !.cur = s], ret)

\* the jump back into the yield without res->result = arg
LongjmpResume_no_result(H, res, arg) ==
  IF ~LiveFrame(H, res, "yield")
  THEN Crash(H, "crash: longjmp to a frame that is gone")
  ELSE [H EXCEPT !.stk[res[1]] = SubSeq(@, 1, res[2] - 1), !.cur = res[1]]

\* res->result = arg; mp_longjmp(&res->jmp): back in the mp_yield_internal
\* activation that owns res (Y), which returns res.result to its caller
LongjmpResume(H, res, arg) ==
  IF ~LiveFrame(H, res, "yield")
  THEN Crash(H, "crash: longjmp to a frame that is gone")
  ELSE LET s  == res[1]
           j  == res[2]
           p  == H.stk[s][j].p
           H1 == Check(H, mp_prompt_is_active(H, p), "yield: active after resume")
           H2 == Check(H1, mp_prompt_is_ancestor(H1, p), "yield: ancestor after resume")
       IN  [H2 EXCEPT !.stk[s] = [SubSeq(@, 1, j - 1) EXCEPT ![j - 1].v = arg],
                      !.cur = s]

\* mp_gstack_enter(p->gstack, .., &mp_prompt_stack_entry, &env): the first
\* frame of the stacklet runs (p->start_fun)(p, p->start_arg, env->arg)
mp_prompt_stack_entry(H, p, arg) ==
  [Check(H, H.pr[p].start_fun, "stack_entry: start_fun != NULL")
     EXCEPT !.stk[p] = <<UserFrame("start", p, NoHandle, 0, arg)>>, !.cur = p,
            !.entered[p] = @ + 1]

\* RET that jumps to the return point without unlinking the prompt
StackEntryReturn_no_unlink(H, p, result) ==
  LongjmpReturn([H EXCEPT !.stk[p] = <<>>], H.pr[p].return_point, "RETURN", result, 0)

\* RET: the start function returned `result`
StackEntryReturn(H, p, result) ==
  LET H1 == mp_prompt_unlink([H EXCEPT !.stk[p] = <<>>], p, Null)
  IN  LongjmpReturn(H1, H1.rv, "RETURN", result, 0)

\* EXN that tags the return point MP_RETURN and drops the exception
StackEntryCatch_as_return(H, p, e) ==
  LET H1 == mp_prompt_unlink([H EXCEPT !.stk[p] = <<>>, !.exn = 0], p, Null)
  IN  LongjmpReturn(H1, H1.rv, "RETURN", 0, 0)

\* EXN: the start function left with exception e (catch (...))
StackEntryCatch(H, p, e) ==
  LET H1 == mp_prompt_unlink([H EXCEPT !.stk[p] = <<>>, !.exn = 0], p, Null)
  IN  LongjmpReturn(H1, H1.rv, "EXCEPTION", 0, e)

\* Resume a prompt: used for the initial entry as well as for resuming in a
\* suspended prompt.
mp_prompt_resume(H, p, arg) ==
  LET ret == <<H.cur, Depth(H) + 1>>
      H1  == [H EXCEPT !.stk[H.cur] = Append(@, ResumeFrame(p, H.top))]
      H2  == Check(H1, H1.pr[p].parent = 0, "resume: parent == NULL")
      H3  == mp_prompt_link(H2, p, ret)
  IN  IF H3.rv # Null
      THEN LongjmpResume(H3, H3.rv, arg)          \* PR
      ELSE mp_prompt_stack_entry(H3, p, arg)      \* PI

\* Resume in tail position to a prompt `p`, reusing return point ret
mp_prompt_resume_tail(H, p, arg, ret) ==
  LET H1 == Check([H EXCEPT !.ev.tail = TRUE], H.pr[p].refcount = 1,
                  "resume_tail: refcount == 1")
      H2 == Check(H1, ~mp_prompt_is_active(H1, p), "resume_tail: !active")
      H3 == Check(H2, H2.pr[p].resume_point # Null, "resume_tail: resume_point != NULL")
      H4 == mp_prompt_link(H3, p, ret)
      \* the frames the caller leaves above the return point are dead
      H5 == IF ret # Null /\ ret[1] = H4.cur /\ ret[2] <= Depth(H4)
            THEN [H4 EXCEPT !.stk[H4.cur] = SubSeq(@, 1, ret[2])]
            ELSE H4
  IN  IF H5.rv = Null
      THEN Crash(H5, "crash: NULL dereference")
      ELSE LongjmpResume(H5, H5.rv, arg)

\* mp_yield_internal that jumps to the return point without unlinking
mp_yield_internal_no_unlink(H, rkind, p, arg) ==
  LET H1 == Check(H, mp_prompt_is_ancestor(H, p), "yield: ancestor")
      H2 == Check(H1, mp_prompt_is_active(H1, p), "yield: active")
      H3 == [H2 EXCEPT !.stk[H.cur] = Append(@, YieldFrame(p))]
  IN  LongjmpReturn(H3, H3.pr[p].return_point, rkind, arg, 0)

\* Yield to a prompt with a certain resumption kind.
mp_yield_internal(H, rkind, p, arg) ==
  LET H1 == Check(H, mp_prompt_is_ancestor(H, p), "yield: ancestor")
      H2 == Check(H1, mp_prompt_is_active(H1, p), "yield: active")
      res == <<H.cur, Depth(H) + 1>>
      H3 == [H2 EXCEPT !.stk[H.cur] = Append(@, YieldFrame(p))]
      H4 == mp_prompt_unlink(H3, p, res)
  IN  LongjmpReturn(H4, H4.rv, rkind, arg, 0)

mp_yield(H, p, arg) == mp_yield_internal(H, "YIELD_ONCE", p, arg)

mp_yieldm(H, p, arg) == mp_yield_internal(H, "YIELD_MULTI", p, arg)

\* ------------------------------------------------ multi-shot resumptions
\* Increment the reference count of a resumption.
mp_mresume_dup(H, r) == [H EXCEPT !.mr[r].refcount = @ + 1, !.rv = r]

\* the loop of mp_mresume_drop over r->save: free each snapshot and drop its prompt
RECURSIVE DropSaves(_, _)
DropSaves(H, save) ==
  IF save = <<>> THEN H
  ELSE DropSaves(mp_prompt_drop([H EXCEPT !.gs[2] = @ + 1], Head(save).prompt),
                 Tail(save))

\* Decrement the reference count of a resumption.
mp_mresume_drop(H, r) ==
  LET i  == H.mr[r].refcount
      H1 == [Check(H, H.mrfree[r] = 0, "use-after-free")
               EXCEPT !.mr[r].refcount = @ - 1]
  IN  IF i <= 1
      THEN LET H2 == DropSaves(H1, H1.mr[r].save)
               H3 == mp_prompt_drop(H2, H2.mr[r].prompt)
           IN  [H3 EXCEPT !.mrfree[r] = @ + 1, !.mr[r].save = <<>>, !.cap[r] = <<>>]
      ELSE H1

\* mp_gstack_save(g, sp): the bytes from sp to the base of the stacklet, the
\* mp_prompt_t at the base included
mp_gstack_save(H, q, sp) ==
  [hdr |-> H.pr[q],
   frames |-> IF sp # Null /\ sp[1] = q /\ sp[2] <= Len(H.stk[q])
              THEN SubSeq(H.stk[q], 1, sp[2]) ELSE H.stk[q]]

\* mp_gsave_restore(gsave): the saved bytes are copied back
mp_gsave_restore(H, q, gsave) ==
  [Deref(H, q) EXCEPT !.pr[q] = gsave.hdr, !.stk[q] = gsave.frames]

\* the do-while of mp_prompt_save with each new entry put at the end of the
\* list
RECURSIVE SaveChain_append(_, _, _, _, _)
SaveChain_append(H, q, sp, savep, fuel) ==
  LET H1     == mp_prompt_dup(H, q)
      save   == [prompt |-> q, gsave |-> mp_gstack_save(H1, q, sp)]
      H2     == [H1 EXCEPT !.gs[1] = @ + 1]
      parent == H2.pr[q].parent
      psp    == IF parent = 0 THEN Null ELSE H2.pr[q].return_point
  IN  IF parent = 0 \/ fuel = 0
      THEN [H2 EXCEPT !.rv = savep \o <<save>>]
      ELSE SaveChain_append(H2, parent, psp, savep \o <<save>>, fuel - 1)

\* the do-while of mp_prompt_save: snapshot q with stack pointer sp, go on
\* with its parent; rv is the list built
RECURSIVE SaveChain(_, _, _, _, _)
SaveChain(H, q, sp, savep, fuel) ==
  LET H1     == mp_prompt_dup(H, q)
      save   == [prompt |-> q, gsave |-> mp_gstack_save(H1, q, sp)]
      H2     == [H1 EXCEPT !.gs[1] = @ + 1]
      parent == H2.pr[q].parent
      psp    == IF parent = 0 THEN Null ELSE H2.pr[q].return_point
  IN  IF parent = 0 \/ fuel = 0
      THEN [H2 EXCEPT !.rv = <<save>> \o savep]
      ELSE SaveChain(H2, parent, psp, <<save>> \o savep, fuel - 1)

\* Save a full prompt chain started at `p`
mp_prompt_save(H, p) ==
  LET H1 == Check(H, ~mp_prompt_is_active(H, p), "save: !active")
  IN  IF H1.pr[p].resume_point = Null \/ H1.pr[p].top = 0
      THEN Crash([H1 EXCEPT !.rv = <<>>], "crash: NULL dereference")
      ELSE SaveChain(H1, H1.pr[p].top, H1.pr[p].resume_point, <<>>, MaxChain)

\* the do-while of mp_prompt_restore
RECURSIVE RestoreChain(_, _)
RestoreChain(H, save) ==
  IF save = <<>> THEN H
  ELSE RestoreChain([mp_gsave_restore(H, Head(save).prompt, Head(save).gsave)
                       EXCEPT !.ev.restored = Append(@, Head(save).prompt)],
                    Tail(save))

\* Restore all prompt stacks from a save.
mp_prompt_restore(H, p, save) ==
  LET H1 == Check(H, ~mp_prompt_is_active(H, p), "restore: !active")
      H2 == Check(H1, p = Head(save).prompt, "restore: p == save->prompt")
  IN  RestoreChain(H2, save)

\* mp_resume_get_prompt that takes the snapshot whether or not there is
\* another owner
mp_resume_get_prompt_eager(H, r) ==
  LET p  == H.mr[r].prompt
      H1 == IF H.mr[r].save # <<>>
            THEN [mp_prompt_restore(H, p, H.mr[r].save) EXCEPT !.ev.snap = "restored"]
            ELSE LET S == mp_prompt_save(H, p)
                 IN  [S EXCEPT !.mr[r].save = S.rv, !.ev.snap = "saved"]
      H2 == mp_prompt_dup(H1, p)
      H3 == mp_mresume_drop(H2, r)
  IN  [H3 EXCEPT !.rv = p]

\* Ensure proper refcount and pristine stack; rv is the prompt
mp_resume_get_prompt(H, r) ==
  LET p  == H.mr[r].prompt
      H1 == IF H.mr[r].save # <<>>
            THEN [mp_prompt_restore(H, p, H.mr[r].save) EXCEPT !.ev.snap = "restored"]
            ELSE IF H.mr[r].refcount > 1 \/ H.pr[p].refcount > 1
                 THEN LET S == mp_prompt_save(H, p)
                      IN  [S EXCEPT !.mr[r].save = S.rv, !.ev.snap = "saved"]
                 ELSE H
      H2 == mp_prompt_dup(H1, p)
      H3 == mp_mresume_drop(H2, r)
  IN  [H3 EXCEPT !.rv = p]

\* Resume with a regular resumption (consumes `r`)
mp_mresume(H, r, arg) ==
  LET H1 == [Check(H, H.mrfree[r] = 0, "use-after-free")
               EXCEPT !.mr[r].resume_count = @ + 1]
      H2 == mp_resume_get_prompt(H1, r)
      H3 == [H2 EXCEPT !.ev.seen = ChainState(H2, H2.rv), !.ev.was = H.cap[r]]
  IN  mp_prompt_resume(H3, H3.rv, arg)

\* mp_mresume_tail that does not count the resume
mp_mresume_tail_no_count(H, r, arg) ==
  LET ret == H.mr[r].tail_return_point
  IN  IF ret = Null
      THEN mp_mresume(H, r, arg)
      ELSE LET H1 == [Check(H, H.mrfree[r] = 0, "use-after-free")
                        EXCEPT !.mr[r].tail_return_point = Null]
               H2 == mp_resume_get_prompt(H1, r)
               H3 == [H2 EXCEPT !.ev.seen = ChainState(H2, H2.rv), !.ev.was = H.cap[r]]
           IN  mp_prompt_resume_tail(H3, H3.rv, arg, ret)

\* mp_mresume_tail that leaves the cached return point in the record
mp_mresume_tail_keeps_ret(H, r, arg) ==
  LET ret == H.mr[r].tail_return_point
  IN  IF ret = Null
      THEN mp_mresume(H, r, arg)
      ELSE LET H1 == [Check(H, H.mrfree[r] = 0, "use-after-free")
                        EXCEPT !.mr[r].resume_count = @ + 1]
               H2 == mp_resume_get_prompt(H1, r)
               H3 == [H2 EXCEPT !.ev.seen = ChainState(H2, H2.rv), !.ev.was = H.cap[r]]
           IN  mp_prompt_resume_tail(H3, H3.rv, arg, ret)

\* Resume in tail position
mp_mresume_tail(H, r, arg) ==
  LET ret == H.mr[r].tail_return_point
  IN  IF ret = Null
      THEN mp_mresume(H, r, arg)
      ELSE LET H1 == [Check(H, H.mrfree[r] = 0, "use-after-free")
                        EXCEPT !.mr[r].tail_return_point = Null,
                               !.mr[r].resume_count = @ + 1]
               H2 == mp_resume_get_prompt(H1, r)
               H3 == [H2 EXCEPT !.ev.seen = ChainState(H2, H2.rv), !.ev.was = H.cap[r]]
           IN  mp_prompt_resume_tail(H3, H3.rv, arg, ret)

\* ------------------------------------------------------- the public API
\* Resume
mp_resume(H, resume, arg) ==
  LET p == mp_resume_is_once(resume)
  IN  IF p = 0 THEN mp_mresume(H, mp_resume_is_multi(resume), arg)
      ELSE LET H1 == Check(H, H.pr[p].refcount = 1, "resume: refcount == 1")
               H2 == Check(H1, H1.pr[p].resume_point # Null \/ H1.pr[p].start_fun,
                           "resume: resume_point != NULL || start_fun != NULL")
           IN  mp_prompt_resume(H2, p, arg)

\* mp_resume_tail that resumes with a fresh return point
mp_resume_tail_as_resume(H, resume, arg) == mp_resume(H, resume, arg)

\* Resume in tail position (last and only resume in scope)
mp_resume_tail(H, resume, arg) ==
  LET p == mp_resume_is_once(resume)
  IN  IF p = 0 THEN mp_mresume_tail(H, mp_resume_is_multi(resume), arg)
      ELSE mp_prompt_resume_tail(H, p, arg, H.pr[p].return_point)

mp_resume_drop(H, resume) ==
  LET p == mp_resume_is_once(resume)
  IN  IF p = 0 THEN mp_mresume_drop(H, mp_resume_is_multi(resume))
      ELSE mp_prompt_drop(H, p)

\* rv is the handle, or NoHandle (NULL) for a once-resumption
mp_resume_dup(H, resume) ==
  LET r == mp_resume_is_multi(resume)
  IN  IF r = 0 THEN [H EXCEPT !.rv = NoHandle]
      ELSE [mp_mresume_dup(H, r) EXCEPT !.rv = resume]

mp_resume_resume_count(H, resume) ==
  LET r == mp_resume_is_multi(resume)
  IN  IF r = 0 THEN 0 ELSE H.mr[r].resume_count

mp_resume_should_unwind(H, resume) ==
  LET r == mp_resume_is_multi(resume)
  IN  r # 0 /\ H.mr[r].refcount = 1 /\ H.mr[r].resume_count = 0

\* Install a fresh prompt and start running the start function on it.
mp_prompt(H, arg) ==
  LET H1 == mp_prompt_create(H)
  IN  mp_resume(H1, H1.rv, arg)

\* ------------------------------------------------------------ the client
\* The client is the code that calls the library: main on stack 0, the start
\* functions and the yield functions.  It keeps the handle contracts: it uses
\* a reference it owns, tail-resumes only from the yield function that
\* received the handle with its last reference, and lets no frame that owns a
\* handle be captured by a multi-shot yield or left by return or exception.

Boot ==
  /\ top = 0
  /\ cur = 0
  /\ pr = [p \in Prompts |-> NoPrompt]
  /\ stk = [s \in Stacks |-> IF s = 0 THEN <<UserFrame("main", 0, NoHandle, 0, 0)>>
                             ELSE <<>>]
  /\ gfree = [p \in Prompts |-> 0]
  /\ nalloc = 0
  /\ mr = [r \in Records |-> NoRecord]
  /\ mrfree = [r \in Records |-> 0]
  /\ nmr = 0
  /\ gs = <<0, 0>>
  /\ exn = 0
  /\ held = 0
  /\ lk = [p \in Prompts |-> 0]
  /\ cap = [r \in Records |-> <<>>]
  /\ entered = [p \in Prompts |-> 0]
  /\ ev = NoEv

\* the library as shipped: assertions compiled out
Init == Boot /\ ndebug = TRUE

\* either build
InitM == Boot /\ ndebug \in BOOLEAN

Apply(H) ==
  /\ top' = H.top
  /\ cur' = H.cur
  /\ pr' = H.pr
  /\ stk' = H.stk
  /\ gfree' = H.gfree
  /\ nalloc' = H.nalloc
  /\ mr' = H.mr
  /\ mrfree' = H.mrfree
  /\ nmr' = H.nmr
  /\ gs' = H.gs
  /\ exn' = H.exn
  /\ held' = H.held
  /\ lk' = H.lk
  /\ cap' = H.cap
  /\ entered' = H.entered
  /\ ndebug' = ndebug
  /\ ev' = H.ev

\* the first assertion of the operation that fails, if it comes before a crash
FirstFail(H) ==
  LET f == SelectSeq(H.ev.fails, LAMBDA l : l # "use-after-free")
  IN  IF f # <<>> /\ Head(f) \notin Crashes THEN <<Head(f)>> ELSE <<>>

\* the operation stopped: the state is the one it found
Stopped(H, how, labels) ==
  [Machine EXCEPT !.ev = [NoEv EXCEPT !.op = H.ev.op, !.h = H.ev.h, !.p = H.ev.p,
                                      !.misuse = H.ev.misuse, !.tail = H.ev.tail,
                                      !.ret = how,
                                      !.fails = labels]]

\* The outcomes of an operation that leaves the machine in H when the code
\* goes on past every assertion: with assertions compiled in, it stops at the
\* first one that fails; an access to freed memory gives what the memory
\* still holds (H), or it faults.
Commit(H) ==
  \/ IF ~ndebug /\ FirstFail(H) # <<>>
     THEN Apply(Stopped(H, "abort", FirstFail(H)))
     ELSE Apply(H)
  \/ /\ "use-after-free" \in Range(H.ev.fails)
     /\ ndebug \/ Head(H.ev.fails) = "use-after-free"
     /\ Apply(Stopped(H, "fault", <<"use-after-free", "crash: access to freed memory">>))

\* The run is followed up to and including the operation that aborted, broke a
\* contract, crashed or read freed memory: what the program does after that
\* is not defined.
Halted ==
  \/ ev.ret \in {"abort", "fault"}
  \/ ev.misuse
  \/ Range(ev.fails) \cap (Crashes \cup {"use-after-free"}) # {}

\* the frame that executes
F == stk[cur][Len(stk[cur])]

\* client code is executing (no exception in flight)
Running == ~Halted /\ exn = 0 /\ Len(stk[cur]) >= 1 /\ F.k = "user"

\* an exception is in flight in a client frame
Unwinding == ~Halted /\ exn # 0 /\ Len(stk[cur]) >= 1 /\ F.k = "user"

\* The references a frame owns are kept in a fixed order: slot 1 (h, n) is
\* used first, and of two handles the one with the smaller key is in slot 1.
Slots == {1, 2}

Key(h) == IF h[1] = "once" THEN h[2] ELSE MaxChain + h[2]

Norm(f) ==
  IF f.n = 0
  THEN [f EXCEPT !.h = IF f.m = 0 THEN NoHandle ELSE f.g, !.n = f.m,
                 !.g = NoHandle, !.m = 0]
  ELSE IF f.m = 0 THEN [f EXCEPT !.g = NoHandle]
  ELSE IF Key(f.g) < Key(f.h)
  THEN [f EXCEPT !.h = f.g, !.n = f.m, !.g = f.h, !.m = f.n]
  ELSE f

\* the handle in slot k of frame f, and the references on it
HandleOf(f, k) == IF k = 1 THEN f.h ELSE f.g

RefsOf(f, k) == IF k = 1 THEN f.n ELSE f.m

\* frame f can take n more references on h
CanTake(f, h, n) ==
  IF f.n >= 1 /\ f.h = h THEN f.n + n <= MaxRefs
  ELSE IF f.m >= 1 /\ f.g = h THEN f.m + n <= MaxRefs
  ELSE f.m = 0

Take(f, h, n) ==
  Norm(IF f.n >= 1 /\ f.h = h THEN [f EXCEPT !.n = @ + n]
       ELSE IF f.m >= 1 /\ f.g = h THEN [f EXCEPT !.m = @ + n]
       ELSE IF f.n = 0 THEN [f EXCEPT !.h = h, !.n = n]
       ELSE [f EXCEPT !.g = h, !.m = n])

Give(f, k) == Norm(IF k = 1 THEN [f EXCEPT !.n = @ - 1] ELSE [f EXCEPT !.m = @ - 1])

\* the client gives up one of the references its running frame owns in slot k
Use(H, k) ==
  [H EXCEPT !.stk[H.cur][Depth(H)] = Give(@, k), !.held = @ - 1]

\* the mp_prompt_resume activations on stack s
ResumeFrames(s) == {i \in 1 .. Len(stk[s]) : stk[s][i].k = "resume"}

RECURSIVE Sum(_, _)
Sum(f, S) == IF S = {} THEN 0 ELSE LET x == CHOOSE y \in S : TRUE IN f[x] + Sum(f, S \ {x})

Nesting == Sum([s \in Stacks |-> Cardinality(ResumeFrames(s))], Stacks)

\* room for an mp_prompt_resume frame and the yield function it may run
RoomToResume == Len(stk[cur]) + 2 <= MaxDepth /\ Nesting < MaxNest

\* p is met walking the parent fields from the current top
OnChain(p) == p \in Range(ChainFrom(Machine, top, MaxChain))

\* the prompts from the current top down to p, p included
Captured(p) ==
  LET c == ChainFrom(Machine, top, MaxChain)
  IN  {c[i] : i \in {j \in 1 .. Len(c) : \A k \in 1 .. j - 1 : c[k] # p}}

NoHandleCaptured(p) ==
  \A q \in Captured(p) : \A i \in 1 .. Len(stk[q]) : stk[q][i].n = 0

\* the return point a tail resume of h would use is the one of the
\* mp_prompt_resume activation right below the running yield function
TailInScope(h) ==
  LET ret == <<cur, Len(stk[cur]) - 1>>
  IN  /\ F.fn = "yfun"
      /\ F.n = 1
      /\ F.m = 0
      /\ IF h[1] = "once" THEN pr[h[2]].return_point = ret
         ELSE mr[h[2]].tail_return_point \in {ret, Null}

\* a multi-shot record is resumed at most MaxCount times
CountRoom(h) == h[1] = "multi" => mr[h[2]].resume_count < MaxCount

PromptCreate(np) ==
  /\ Running
  /\ nalloc < np
  /\ CanTake(F, mp_resume_once(nalloc + 1), 1)
  /\ LET H == mp_prompt_create(Start("prompt_create", NoHandle))
     IN  Commit([H EXCEPT !.stk[cur][Len(stk[cur])] = Take(@, H.rv, 1),
                          !.held = @ + 1, !.ev.h = H.rv])

Prompt(np, arg) ==
  /\ Running
  /\ nalloc < np
  /\ RoomToResume
  /\ Commit(mp_prompt(StartWith("prompt", mp_resume_once(nalloc + 1), arg), arg))

Resume(k, arg) ==
  /\ Running
  /\ RefsOf(F, k) >= 1
  /\ RoomToResume
  /\ CountRoom(HandleOf(F, k))
  /\ Commit(mp_resume(Use(StartWith("resume", HandleOf(F, k), arg), k), HandleOf(F, k), arg))

ResumeTail(arg) ==
  /\ Running
  /\ F.n >= 1
  /\ TailInScope(F.h)
  /\ (F.h[1] = "multi" /\ mr[F.h[2]].tail_return_point = Null) => RoomToResume
  /\ CountRoom(F.h)
  /\ Commit(mp_resume_tail(Use(StartWith("resume_tail", F.h, arg), 1), F.h, arg))

\* the client tail-resumes a once-resumption it owns, wherever it is: the
\* prompt may never have been entered, and the activation of the resume that
\* set its return point may be gone
ResumeTailAny(k, arg) ==
  /\ Running
  /\ RefsOf(F, k) >= 1
  /\ HandleOf(F, k)[1] = "once"
  /\ Commit(mp_resume_tail(Use(StartWith("resume_tail", HandleOf(F, k), arg), k),
                           HandleOf(F, k), arg))

Drop(k) ==
  /\ Running
  /\ RefsOf(F, k) >= 1
  /\ Commit(mp_resume_drop(Use(Start("drop", HandleOf(F, k)), k), HandleOf(F, k)))

Dup(k) ==
  /\ Running
  /\ RefsOf(F, k) >= 1
  /\ RefsOf(F, k) < MaxRefs
  /\ LET h == HandleOf(F, k)
         H == mp_resume_dup(Start("dup", h), h)
     IN  IF H.rv = NoHandle THEN Commit(H)
         ELSE Commit([H EXCEPT !.stk[cur][Len(stk[cur])] = Take(@, h, 1),
                               !.held = @ + 1])

Yield(p, arg) ==
  /\ Running
  /\ OnChain(p)
  /\ Len(stk[cur]) < MaxDepth
  /\ NoHandleCaptured(p)
  /\ Commit(mp_yield([StartWith("yield", NoHandle, arg) EXCEPT !.ev.p = p], p, arg))

Yieldm(nr, p, arg) ==
  /\ Running
  /\ OnChain(p)
  /\ Len(stk[cur]) < MaxDepth
  /\ nmr < nr
  /\ NoHandleCaptured(p)
  /\ Commit(mp_yieldm([StartWith("yieldm", NoHandle, arg) EXCEPT !.ev.p = p], p, arg))

\* the client asks how often a resumption it owns was resumed
ResumeCount(k) ==
  /\ Running
  /\ RefsOf(F, k) >= 1
  /\ LET h == HandleOf(F, k)
         H == Check(Start("resume_count", h), h[1] = "once" \/ mrfree[h[2]] = 0,
                    "use-after-free")
     IN  Commit([H EXCEPT !.ev.v = mp_resume_resume_count(H, h)])

\* a start function returns the last value it received
ReturnStart ==
  /\ Running
  /\ F.fn = "start"
  /\ F.n = 0
  /\ Commit(StackEntryReturn([StartWith("return", NoHandle, F.v) EXCEPT !.ev.p = F.p], F.p, F.v))

\* a yield function returns the last value it received
ReturnYield ==
  /\ Running
  /\ F.fn = "yfun"
  /\ F.n = 0
  /\ Commit(ReturnValue(StartWith("yield_return", NoHandle, F.v), <<cur, Len(stk[cur]) - 1>>, F.v))

\* a yield function returns and hands the resumption it owns to its caller
ReturnYieldKeep ==
  /\ Running
  /\ F.fn = "yfun"
  /\ F.n >= 1
  /\ F.m = 0
  /\ Len(stk[cur]) >= 3
  /\ CanTake(stk[cur][Len(stk[cur]) - 2], F.h, F.n)
  /\ LET H == ReturnValue(StartWith("yield_return", F.h, F.v), <<cur, Len(stk[cur]) - 1>>, F.v)
     IN  Commit([H EXCEPT !.stk[cur][Len(stk[cur]) - 2] = Take(@, F.h, F.n)])

\* The client keeps a resumption in a variable of main, which every function
\* reaches through a pointer: the running frame moves one of its references
\* there,
Stash(k) ==
  /\ Running
  /\ cur # 0 \/ Len(stk[cur]) > 1
  /\ RefsOf(F, k) >= 1
  /\ CanTake(stk[0][1], HandleOf(F, k), 1)
  /\ LET h == HandleOf(F, k)
         H == Start("stash", h)
     IN  Commit([H EXCEPT !.stk[cur][Len(stk[cur])] = Give(@, k),
                          !.stk[0][1] = Take(@, h, 1)])

\* the prompt a resumption resumes
PromptOf(h) == IF h[1] = "once" THEN h[2] ELSE mr[h[2]].prompt

\* the prompts of the chain a resumption re-enters
ChainOf(h) ==
  IF h[1] = "once" THEN Range(ChainFrom(Machine, pr[h[2]].top, MaxChain))
  ELSE {cap[h[2]][2][i][1] : i \in 1 .. Len(cap[h[2]][2])}

\* or takes one back, while the prompt it resumes is suspended and no prompt
\* of its chain is running
Fetch(k) ==
  /\ Running
  /\ cur # 0 \/ Len(stk[cur]) > 1
  /\ RefsOf(stk[0][1], k) >= 1
  /\ ~mp_prompt_is_active(Machine, PromptOf(HandleOf(stk[0][1], k)))
  /\ \A q \in ChainOf(HandleOf(stk[0][1], k)) : ~OnChain(q)
  /\ CanTake(F, HandleOf(stk[0][1], k), 1)
  /\ LET h == HandleOf(stk[0][1], k)
         H == Start("fetch", h)
     IN  Commit([H EXCEPT !.stk[0][1] = Give(@, k),
                          !.stk[cur][Len(stk[cur])] = Take(@, h, 1)])

\* the running frame is left by exception e: a start function into the catch
\* of the entry trampoline, a yield function through mp_prompt_resume into
\* its caller
Leave(H, e) ==
  IF F.fn = "start" THEN StackEntryCatch(H, F.p, e)
  ELSE [H EXCEPT !.stk[cur] = SubSeq(@, 1, Len(@) - 2), !.exn = e]

Throw(e) ==
  /\ Running
  /\ F.fn # "main"
  /\ F.n = 0
  /\ Commit(Leave([Start("throw", NoHandle) EXCEPT !.ev.p = F.p, !.ev.thrown = e], e))

Propagate ==
  /\ Unwinding
  /\ F.fn # "main"
  /\ F.n = 0
  /\ Commit(Leave([Start("throw", NoHandle) EXCEPT !.ev.p = F.p, !.ev.thrown = exn], exn))

Catch ==
  /\ Unwinding
  /\ Commit([Start("catch", NoHandle) EXCEPT !.exn = 0, !.ev.e = exn])

\* ------------------------------------------------- a client that misuses
\* The once-handle of p (the pointer p itself) is stale: the client used it,
\* and no yield to p has delivered a handle since.
Holds(h) ==
  \E s \in Stacks : \E i \in 1 .. Len(stk[s]) :
    \/ stk[s][i].h = h /\ stk[s][i].n >= 1
    \/ stk[s][i].g = h /\ stk[s][i].m >= 1

StaleOnce(p) ==
  /\ p \in 1 .. nalloc
  /\ ~Holds(mp_resume_once(p))
  /\ \A r \in 1 .. nmr : mrfree[r] = 0 => mr[r].prompt # p

Abuse(op, p) == [Start(op, mp_resume_once(p)) EXCEPT !.ev.misuse = TRUE, !.ev.p = p]

StaleResume(p, arg) ==
  /\ Running
  /\ StaleOnce(p)
  /\ RoomToResume
  /\ Commit(mp_resume(Abuse("resume", p), mp_resume_once(p), arg))

StaleResumeTail(p, arg) ==
  /\ Running
  /\ StaleOnce(p)
  /\ Commit(mp_resume_tail(Abuse("resume_tail", p), mp_resume_once(p), arg))

StaleDrop(p) ==
  /\ Running
  /\ StaleOnce(p)
  /\ Commit(mp_resume_drop(Abuse("drop", p), mp_resume_once(p)))

\* a yield to a prompt that is not an ancestor of the current top
BadYield(p, arg) ==
  /\ Running
  /\ p \in 1 .. nalloc
  /\ ~OnChain(p)
  /\ Len(stk[cur]) < MaxDepth
  /\ Commit(mp_yield([Start("yield", NoHandle) EXCEPT !.ev.p = p, !.ev.misuse = TRUE], p, arg))

BadYieldm(p, arg) ==
  /\ Running
  /\ p \in 1 .. nalloc
  /\ ~OnChain(p)
  /\ Len(stk[cur]) < MaxDepth
  /\ nmr < MaxLone
  /\ Commit(mp_yieldm([Start("yieldm", NoHandle) EXCEPT !.ev.p = p, !.ev.misuse = TRUE], p, arg))

\* -------------------------------------------------------- specifications
\* the calls of a client that creates at most np prompts and makes at most nr
\* multi-shot yields, with start arguments from VP, resume arguments from VR
\* and yield arguments from VY
Calls(VP, VR, VY, np, nr) ==
  \/ PromptCreate(np)
  \/ \E arg \in VP : Prompt(np, arg)
  \/ \E k \in Slots, arg \in VR : Resume(k, arg)
  \/ \E arg \in VR : ResumeTail(arg)
  \/ \E k \in Slots : Drop(k)
  \/ \E k \in Slots : Dup(k)
  \/ \E p \in Prompts, arg \in VY : Yield(p, arg)
  \/ \E p \in Prompts, arg \in VY : Yieldm(nr, p, arg)
  \/ ReturnStart
  \/ ReturnYield
  \/ ReturnYieldKeep

Exceptions ==
  \/ \E e \in Exns : Throw(e)
  \/ Propagate
  \/ Catch

Misuse ==
  \/ \E p \in Prompts, arg \in Unit : StaleResume(p, arg)
  \/ \E p \in Prompts, arg \in Unit : StaleResumeTail(p, arg)
  \/ \E p \in Prompts : StaleDrop(p)
  \/ \E p \in Prompts, arg \in Unit : BadYield(p, arg)
  \/ \E p \in Prompts, arg \in Unit : BadYieldm(p, arg)

\* a client that keeps the contracts, on the library as shipped
Next == Calls(Unit, Unit, Unit, MaxPrompts, MaxLone) \/ Exceptions

Spec == Init /\ [][Next]_vars

\* one prompt, two values to yield and to resume with, no exceptions
NextV == Calls(Unit, Vals, Vals, MaxSingle, MaxLone)

SpecV == Init /\ [][NextV]_vars

\* a client that may break the contracts, on either build
NextM == Calls(Unit, Unit, Unit, MaxPrompts, MaxLone) \/ Misuse

SpecM == InitM /\ [][NextM]_vars

\* one prompt, captured by two multi-shot yields, and a client that reads
\* the resume counts
NextR ==
  \/ Calls(Unit, Unit, Unit, MaxSingle, MaxMres)
  \/ \E k \in Slots : ResumeCount(k)

SpecR == Init /\ [][NextR]_vars

\* the calls of a client that makes no multi-shot yield
Once(np) ==
  \/ PromptCreate(np)
  \/ \E arg \in Unit : Prompt(np, arg)
  \/ \E k \in Slots, arg \in Unit : Resume(k, arg)
  \/ \E arg \in Unit : ResumeTail(arg)
  \/ \E k \in Slots : Drop(k)
  \/ \E p \in Prompts, arg \in Unit : Yield(p, arg)
  \/ ReturnStart
  \/ ReturnYield
  \/ ReturnYieldKeep

\* three prompts, once-resumptions only
NextN == Once(MaxChain)

SpecN == Init /\ [][NextN]_vars

\* two prompts, once-resumptions only, tail resumes from anywhere
NextT == Once(MaxPrompts) \/ \E k \in Slots, arg \in Vals : ResumeTailAny(k, arg)

SpecT == Init /\ [][NextT]_vars

\* one prompt, one record, resumptions kept across yield functions
NextQ ==
  \/ Calls(Unit, Unit, Unit, MaxSingle, MaxLone)
  \/ \E k \in Slots : Stash(k)
  \/ \E k \in Slots : Fetch(k)

SpecQ == Init /\ [][NextQ]_vars

\* ------------------------------------------------------------ properties
\* a multi-resumption record that is live
LiveRecord(r) == r \in 1 .. nmr /\ mrfree[r] = 0 /\ mr[r].refcount >= 1

\* a prompt that was created and whose stacklet has not been freed
LivePrompt(p) == p \in 1 .. nalloc /\ gfree[p] = 0

OnceOps == {"resume", "resume_tail", "drop"}

YieldOps == {"yield", "yieldm"}

\* C1: when a prompt or resume call made under top T returns a value to its
\* caller, the current top is T again.
C1_TopRestored == ev.ret = "value" => ev.t1 = ev.t0

\* a call made inside a prompt returned after a run of its yield function
C1_Witness ==
  /\ ev.op = "yield_return"
  /\ ev.ret = "value"
  /\ ev.t0 # 0
  /\ ev.t1 = ev.t0

\* C2: no stacklet, record or snapshot is freed twice, nothing freed is used
\* again, and when no handle is left and every prompt has returned,
\* everything allocated has been freed exactly once.
C2_NoDoubleFreeNoLeak ==
  /\ \A p \in Prompts : gfree[p] <= 1
  /\ \A r \in Records : mrfree[r] <= 1
  /\ gs[2] <= gs[1]
  /\ "use-after-free" \notin Range(ev.fails)
  /\ (held = 0 /\ top = 0 /\ exn = 0 /\ ~Halted) =>
       /\ \A p \in 1 .. nalloc : gfree[p] = 1
       /\ \A r \in 1 .. nmr : mrfree[r] = 1
       /\ gs[1] = gs[2]

\* C3: every resume through a multi-shot record re-enters the chain with the
\* resume point and the frames it had when the record was made.
C3_MultiShotPurity ==
  (ev.op \in {"resume", "resume_tail"} /\ ev.h[1] = "multi" /\ ev.ret # "fault") =>
    /\ ev.was # <<>>
    /\ ev.seen = ev.was

\* C4: the first resume, resume_tail or drop through a once-handle is
\* accepted; a further one through the same handle value is stopped by a
\* check, and links or frees nothing.
C4_OnceExhaustion ==
  (ev.op \in OnceOps /\ ev.h[1] = "once") =>
    IF ev.misuse
    THEN ev.ret = "abort" /\ ev.linked = <<>> /\ ev.freed = <<>>
    ELSE ev.ret # "abort"

\* C5 as stated: a yield unlinks its target if and only if the target is
\* reached from the current top by walking parent.
C5_AncestorLaw == ev.op \in YieldOps => (ev.misuse <=> ev.unlinked = <<>>)

\* C5: with assertions compiled in, a yield to a prompt that is not an
\* ancestor of the current top stops at the ancestor assertion and unlinks
\* nothing; with NDEBUG it unlinks the target (or faults on a freed one); a
\* yield to an ancestor unlinks it in either build.
C5_AncestorLawDebug ==
  ev.op \in YieldOps =>
    /\ (ev.misuse /\ ~ndebug) =>
         /\ ev.ret = "abort"
         /\ ev.fails = <<"yield: ancestor">>
         /\ ev.unlinked = <<>>
    /\ (ev.misuse /\ ndebug /\ ev.ret # "fault") => ev.unlinked = <<ev.p>>
    /\ ~ev.misuse => ev.unlinked = <<ev.p>> /\ ev.ret \notin {"abort", "fault"}

\* a yield to a suspended prompt, stopped by the assertion
C5_Witness ==
  /\ ev.op = "yield"
  /\ ev.misuse
  /\ ~ndebug
  /\ ev.ret = "abort"
  /\ LivePrompt(ev.p)
  /\ pr[ev.p].top # 0

\* C6 as stated: links and unlinks of a prompt alternate, a link first, and a
\* prompt is freed only when its links and unlinks balance.
C6_Duality ==
  /\ \A p \in Prompts : lk[p] \in {0, 1}
  /\ \A i \in 1 .. Len(ev.freed) : ev.freed[i][2] = 0

\* C6: a link finds the prompt suspended, an unlink finds it active and a
\* free starts at a suspended prompt, so a prompt is never linked twice
\* without an unlink in between; the prompts freed are the suspended one
\* and the members of its chain, whatever their balance.
C6_LinkUnlink ==
  /\ \A p \in Prompts : lk[p] <= 1
  /\ Range(ev.fails) \cap {"link: !active", "unlink: active", "free: !active"} = {}

\* a drop that frees an inner prompt of a suspended chain while it is linked
C6_Witness ==
  /\ ev.op = "drop"
  /\ \E i \in 1 .. Len(ev.freed) : ev.freed[i][2] = 1
  /\ \E i \in 1 .. Len(ev.freed) : ev.freed[i][2] = 0

Rewound(p) == \E r \in 1 .. nmr : mr[r].prompt = p /\ mr[r].resume_count >= 1

C9_ResumeRefcount ==
  (ev.op = "resume" /\ ev.h[1] = "once" /\ ~ev.misuse) =>
    "resume: refcount == 1" \notin Range(ev.fails)

C11_ValuePipe ==
  /\ (ev.op \in {"prompt", "resume", "resume_tail"} /\ ev.ret = "none" /\ ~Halted) =>
       F.v = ev.sent
  /\ (ev.op \in YieldOps /\ ev.ret = "none" /\ ~Halted) =>
       F.fn = "yfun" /\ F.v = ev.sent /\ ev.arg = ev.sent
  /\ (ev.op \in {"return", "yield_return"} /\ ev.ret = "value") =>
       F.v = ev.sent /\ ev.v = ev.sent

\* a resume delivered 2 into a prompt that was suspended at a yield
C11_Witness ==
  /\ ev.op = "resume"
  /\ ev.h[1] = "once"
  /\ ev.sent = 2
  /\ F.fn = "start"
  /\ F.v = 2
  /\ ev.linked = <<F.p>>
  /\ pr[F.p].resume_point # Null

\* the functions whose frames are on stack s, bottom first
Funs(s) == [i \in 1 .. Len(stk[s]) |-> stk[s][i].fn]

\* the current chain, top first
Chain == ChainFrom(Machine, top, MaxChain)

\* a yield to prompt a: the new top is a's parent, a's saved top is the old
\* top, and the prompts above a on the chain keep their fields and frames
\* (the yielding stack gets the frame of the yield call and nothing else)
YieldStep ==
  (ev'.op = "yield" /\ ~Halted') =>
    LET a == ev'.p
    IN  /\ top' = pr[a].parent
        /\ pr'[a].top = top
        /\ \A q \in Prompts :
             (OnChain(q) /\ q # a /\ q \in Captured(a)) =>
               /\ pr'[q] = pr[q]
               /\ q # top => stk'[q] = stk[q]
        /\ SubSeq(stk'[top], 1, Len(stk[top])) = stk[top]
        /\ Len(stk'[top]) = Len(stk[top]) + 1

\* a resume of the once-resumption of an entered prompt a: the saved top is
\* the top again, the suspended chain is on the current chain in its order
\* with the old chain below it, its prompts other than a keep their fields,
\* the yield call returns on the saved top's stack and no other frame of the
\* suspended chain appears or goes
ResumeStep ==
  (/\ ev'.op \in {"resume", "resume_tail"}
   /\ ev'.h[1] = "once"
   /\ pr[ev'.h[2]].resume_point # Null
   /\ ~Halted') =>
    LET a == ev'.h[2]
        c == ChainFrom(Machine, pr[a].top, MaxChain)
    IN  /\ top' = pr[a].top
        /\ Chain' = c \o Chain
        /\ c[Len(c)] = a
        /\ \A q \in Range(c) \ {a} : pr'[q] = pr[q]
        /\ \A q \in Range(c) \ {pr[a].top} : stk'[q] = stk[q]
        /\ Funs(top)' = SubSeq(Funs(pr[a].top), 1, Len(stk[pr[a].top]) - 1)
        /\ cur' = top'

\* C12: a yield from the top of a chain of nested prompts to an outer prompt
\* a makes a's parent the top, saves the old top in a and leaves the prompts
\* in between as they are; the resume of the resumption puts the same chain
\* back in the same order and enters no start function.
C12_NestedYieldResume == [][YieldStep /\ ResumeStep]_vars

\* C, inside B inside A, runs again after it yielded to A and was resumed
C12_Witness ==
  /\ ev.op = "resume"
  /\ ev.h[1] = "once"
  /\ Len(Chain) = 3
  /\ ev.linked = <<Chain[3]>>
  /\ F.p = top
  /\ pr[Chain[3]].resume_point # Null
  /\ \A i \in 1 .. 3 : Len(SelectSeq(stk[Chain[i]], LAMBDA f : f.fn = "start")) = 1

\* a drop of the once-resumption of prompt a, the only reference to a: every
\* prompt of the suspended chain of a is freed, once, with its frames; no
\* other stacklet is freed, nothing is linked, and the caller goes on
DropStep ==
  (ev'.op = "drop" /\ ev'.h[1] = "once" /\ pr[ev'.h[2]].refcount = 1) =>
    LET a == ev'.h[2]
        c == ChainFrom(Machine, pr[a].top, MaxChain)
    IN  /\ a \in Range(c)
        /\ \A q \in Range(c) : gfree[q] = 0 /\ gfree'[q] = 1 /\ stk'[q] = <<>>
        /\ \A q \in Prompts \ Range(c) : gfree'[q] = gfree[q] /\ Funs(q)' = Funs(q)
        /\ ev'.linked = <<>>
        /\ top' = top
        /\ cur' = cur
        /\ cur \notin Range(c)

\* a freed stacklet stays freed and runs no code
FreedStep ==
  \A q \in Prompts :
    gfree[q] >= 1 => gfree'[q] = gfree[q] /\ stk'[q] = <<>> /\ cur' # q /\ top' # q

Referenced(p) ==
  \/ Holds(mp_resume_once(p))
  \/ \E r \in Records :
       /\ LiveRecord(r)
       /\ \/ mr[r].prompt = p
          \/ \E i \in 1 .. Len(mr[r].save) : mr[r].save[i].prompt = p
  \/ \E q \in Prompts : LivePrompt(q) /\ q # p /\ pr[q].parent = p

\* C14: a prompt referenced by a once-handle, a multi-resumption record, a
\* save entry or the parent field of a live prompt has refcount >= 1 and has
\* not been freed.
C14_RefcountPositive ==
  \A p \in Prompts :
    (p <= nalloc /\ Referenced(p)) => pr[p].refcount >= 1 /\ gfree[p] = 0

\* the call that led to the next state is a resume through record r that
\* was not stopped by an assertion or a fault
ResumedThrough(r) ==
  /\ ev'.op \in {"resume", "resume_tail"}
  /\ ev'.h = mp_resume_multi(r)
  /\ ev'.ret \notin {"abort", "fault"}

\* resume_count of a record goes up by one with each resume or resume_tail
\* through it and with nothing else; a new record is delivered to the yield
\* function with resume_count 0; mp_resume_resume_count answers resume_count
\* for a multi-shot resumption and 0 for a once-resumption
CountStep ==
  /\ \A r \in 1 .. nmr :
       mr'[r].resume_count = mr[r].resume_count + (IF ResumedThrough(r) THEN 1 ELSE 0)
  /\ nmr' # nmr =>
       /\ nmr' = nmr + 1
       /\ ev'.op = "yieldm"
       /\ mr'[nmr'].resume_count = 0
       /\ F'.fn = "yfun"
       /\ F'.h = mp_resume_multi(nmr')
  /\ ev'.op = "resume_count" =>
       ev'.v = IF ev'.h[1] = "multi" THEN mr[ev'.h[2]].resume_count ELSE 0

\* C15: resume_count is 0 when the record is delivered and then counts the
\* resume and resume_tail calls made through the record; resume_count for a
\* once-resumption is 0.
C15_ResumeCount == [][CountStep]_vars

\* the client reads 2 after the second resume through a record
C15_Witness ==
  /\ ev.op = "resume_count"
  /\ ev.h[1] = "multi"
  /\ ev.v = 2
  /\ mr[ev.h[2]].resume_count = 2

\* C16: when mp_prompt_free runs, every prompt it visits has refcount 0 and
\* every parent it steps to has refcount 1 before the decrement.
C16_FreeRefcounts ==
  Range(ev.fails) \cap {"free: refcount == 0", "free: parent->refcount == 1"} = {}

\* C17: mp_prompt_link returns a null resume point exactly for a prompt that
\* was never entered: after a resume has linked p, the start function of p
\* has been invoked once, by this resume (PI) or by an earlier one (PR), and
\* no start function is ever invoked twice.
C17_EnterOnce ==
  /\ \A p \in Prompts : entered[p] <= 1
  /\ (ev.op \in {"prompt", "resume", "resume_tail"} /\ ev.linked # <<>> /\ ~Halted) =>
       entered[ev.linked[1]] = 1

Reverse(s) == [i \in 1 .. Len(s) |-> s[Len(s) + 1 - i]]

\* the prompts of the save list of record r, head first
SavedPrompts(r) == [i \in 1 .. Len(mr[r].save) |-> mr[r].save[i].prompt]

\* the suspended chain of the prompt of record r, from its saved top (the
\* deepest child) down to the prompt itself
SuspendedChain(r) == ChainFrom(Machine, pr[mr[r].prompt].top, MaxChain)

\* the next state follows a resume through record r that took a snapshot and
\* left the record alive
Snapshot(r) ==
  /\ ev'.op \in {"resume", "resume_tail"}
  /\ ev'.h = mp_resume_multi(r)
  /\ ev'.snap = "saved"
  /\ mrfree'[r] = 0
  /\ ~Halted'

\* the next state follows a resume through record r that restored its
\* snapshot
Restored(r) ==
  /\ ev'.op \in {"resume", "resume_tail"}
  /\ ev'.h = mp_resume_multi(r)
  /\ ev'.snap = "restored"
  /\ ~Halted'

\* what holds of a snapshot whatever the order of the list: one entry and
\* one more reference for each prompt of the suspended chain, one snapshot
\* each, and the restore visits the list from its head on
SaveEntries(r) ==
  /\ Snapshot(r) =>
       /\ Len(mr'[r].save) = Len(SuspendedChain(r))
       /\ Range(SavedPrompts(r)') = Range(SuspendedChain(r))
       /\ gs'[1] = gs[1] + Len(SuspendedChain(r))
       /\ \A q \in Range(SuspendedChain(r)) \ {mr[r].prompt} :
            pr'[q].refcount = pr[q].refcount + 1
       /\ pr'[mr[r].prompt].refcount = pr[mr[r].prompt].refcount + 2
  /\ Restored(r) => ev'.restored = SavedPrompts(r)

\* the head of the save list is the deepest child, the saved top of the chain
SaveStepChildFirst ==
  \A r \in 1 .. nmr :
    /\ SaveEntries(r)
    /\ Snapshot(r) => SavedPrompts(r)' = SuspendedChain(r)

\* C18 as stated: the save list has one entry for each prompt of the
\* suspended chain, each with its own reference, linked in child-to-parent
\* order with the saved top at its head; restore visits them in that order.
C18_SaveChildFirst == [][SaveStepChildFirst]_vars

\* the head of the save list is the prompt of the record, the root of the
\* suspended chain, and the deepest child is its last entry
SaveStepParentFirst ==
  \A r \in 1 .. nmr :
    /\ SaveEntries(r)
    /\ Snapshot(r) =>
         /\ SavedPrompts(r)' = Reverse(SuspendedChain(r))
         /\ Head(SavedPrompts(r)') = mr[r].prompt
    /\ Restored(r) => Head(ev'.restored) = mr[r].prompt

\* C18: the save list has one entry for each prompt of the suspended chain,
\* each with its own reference on its prompt, linked in parent-to-child
\* order with the prompt of the record at its head and the saved top last;
\* restore visits the entries in that order.
C18_SaveParentFirst == [][SaveStepParentFirst]_vars

\* the snapshot of a chain of two prompts is restored
C18_Witness ==
  /\ ev.op \in {"resume", "resume_tail"}
  /\ ev.h[1] = "multi"
  /\ ev.snap = "restored"
  /\ Len(ev.restored) = 2
  /\ ev.restored[1] = mr[ev.h[2]].prompt
  /\ ev.restored[2] # ev.restored[1]
  /\ ~Halted

\* the next state follows a resume through record r that went on past
\* mp_resume_get_prompt
Prepared(r) ==
  /\ ev'.op \in {"resume", "resume_tail"}
  /\ ev'.h = mp_resume_multi(r)
  /\ ~Halted'

\* mp_resume_get_prompt on record r of prompt p: it restores the snapshot if
\* the record has one, else takes one if the record or the prompt has
\* another owner, else does neither; it releases one reference on the
\* record (the last one frees the record with its save entries) and leaves
\* one more reference on p for its caller
PrepareStep(r) ==
  Prepared(r) =>
    LET p      == mr[r].prompt
        had    == mr[r].save # <<>>
        shared == mr[r].refcount > 1 \/ pr[p].refcount > 1
        took   == ~had /\ shared
        last   == mr[r].refcount = 1
        base   == IF had THEN Head(mr[r].save).gsave.hdr.refcount ELSE pr[p].refcount
    IN  /\ ev'.snap = IF had THEN "restored" ELSE IF shared THEN "saved" ELSE "none"
        /\ gs'[1] = gs[1] + (IF took THEN Len(SuspendedChain(r)) ELSE 0)
        /\ (had <=> ev'.restored # <<>>)
        /\ (had /\ ~last) => mr'[r].save = mr[r].save
        /\ (took /\ ~last) => mr'[r].save # <<>>
        /\ (~had /\ ~took) => mr'[r].save = <<>> /\ gs' = gs
        /\ mr'[r].refcount = mr[r].refcount - 1
        /\ mrfree'[r] = (IF last THEN 1 ELSE 0)
        /\ pr'[p].refcount =
             base + (IF took THEN 1 ELSE 0) + 1
                  - (IF last THEN (IF had \/ took THEN 2 ELSE 1) ELSE 0)

\* a record that has a snapshot keeps it as long as it lives
KeepStep(r) == (mr[r].save # <<>> /\ mrfree'[r] = 0) => mr'[r].save = mr[r].save

\* C19: mp_resume_get_prompt takes a snapshot only when the record has none
\* and another owner exists, takes and restores none when the record is the
\* sole owner, restores the one snapshot in every later call, and in each
\* case releases one reference on the record and hands out one on the
\* prompt.
C19_Prepare == [][\A r \in 1 .. nmr : PrepareStep(r) /\ KeepStep(r)]_vars

\* a resume restores the snapshot that an earlier resume took
C19_Witness ==
  /\ ev.op \in {"resume", "resume_tail"}
  /\ ev.h[1] = "multi"
  /\ ev.snap = "restored"
  /\ mr[ev.h[2]].resume_count = 2
  /\ mrfree[ev.h[2]] = 0
  /\ mr[ev.h[2]].save # <<>>
  /\ ~Halted

\* C20 as stated: every live prompt has exactly one of parent and top
\* non-null.
C20_ExactlyOne ==
  \A p \in Prompts : LivePrompt(p) => ((pr[p].parent # 0) <=> (pr[p].top = 0))

\* C20: no live prompt has both parent and top non-null; a suspended prompt
\* has top alone, an active prompt with a prompt below it has parent alone,
\* and the active prompt at the bottom of the current chain has neither.
C20_AtMostOne ==
  \A p \in Prompts :
    LivePrompt(p) =>
      /\ ~(pr[p].parent # 0 /\ pr[p].top # 0)
      /\ (pr[p].parent = 0 /\ pr[p].top = 0) =>
           Chain # <<>> /\ p = Chain[Len(Chain)]

\* two nested prompts run: the inner one has a parent, the outer one has
\* neither parent nor top
C20_Witness ==
  /\ Len(Chain) = 2
  /\ LivePrompt(Chain[1])
  /\ LivePrompt(Chain[2])
  /\ pr[Chain[1]].parent = Chain[2] /\ pr[Chain[1]].top = 0
  /\ pr[Chain[2]].parent = 0 /\ pr[Chain[2]].top = 0
  /\ ev.op = "prompt"

\* a tail resume through a once-resumption
TailOnceStep == ev'.op = "resume_tail" /\ ev'.h[1] = "once"

\* what a tail resume of prompt p does: p is linked on top of the current
\* chain, the saved top is the new top, the suspended yield call gets the
\* argument, and p->return_point is the one it had
TailEffect(p) ==
  /\ pr'[p].parent = top
  /\ top' = pr[p].top
  /\ pr'[p].top = 0
  /\ cur' = pr[p].top
  /\ F'.v = ev'.sent
  /\ pr'[p].return_point = pr[p].return_point

\* a resume through a once-resumption links in the same way and makes p's
\* return point the activation of mp_prompt_resume it runs in
FreshStep ==
  (ev'.op = "resume" /\ ev'.h[1] = "once" /\ ~Halted') =>
    LET p == ev'.h[2]
    IN  /\ pr'[p].parent = top
        /\ top' = pr[p].top
        /\ pr'[p].top = 0
        /\ F'.v = ev'.sent
        /\ pr'[p].return_point = <<cur, Len(stk[cur]) + 1>>

\* a yield to p or a return of p's start function lands at p->return_point:
\* the yield function runs on top of that activation, a return pops it
JumpStep ==
  (ev'.op \in {"yield", "return"} /\ ev'.p # 0 /\ ~Halted') =>
    LET rp == pr[ev'.p].return_point
    IN  /\ cur' = rp[1]
        /\ Len(stk'[cur']) = IF ev'.op = "yield" THEN rp[2] + 1 ELSE rp[2] - 1

\* a tail resume of a prompt that was never entered finds no resume point:
\* the assertion fails, and without it the null resume point is written to
NeverEntered ==
  (TailOnceStep /\ pr[ev'.h[2]].resume_point = Null) =>
     /\ "resume_tail: resume_point != NULL" \in Range(ev'.fails)
     /\ "crash: NULL dereference" \in Range(ev'.fails)

\* C21: a tail resume through the once-resumption of a prompt that is
\* suspended at a yield links the prompt as a resume does (parent is the old
\* top, the saved top is the new top, top is null, the argument reaches the
\* yield call) and keeps p->return_point, where a resume stores a fresh one;
\* a later yield or return of p lands at the return point p holds. The
\* once-resumption of a prompt that was never entered is not tail-resumable.
C21_TailResumeEntered ==
  [][/\ (TailOnceStep /\ pr[ev'.h[2]].resume_point # Null) => TailEffect(ev'.h[2])
     /\ NeverEntered
     /\ FreshStep
     /\ JumpStep]_vars

\* C21 as stated: a tail resume has this effect for every once-resumption
\* that resume accepts
C21_TailResumeAny == [][TailOnceStep => TailEffect(ev'.h[2])]_vars

\* a tail resume delivered 2 into a prompt nested in another prompt
C21_Witness ==
  /\ ev.op = "resume_tail"
  /\ ev.h[1] = "once"
  /\ ev.fails = <<>>
  /\ ev.linked = <<ev.h[2]>>
  /\ pr[ev.h[2]].parent # 0
  /\ pr[ev.h[2]].return_point # Null
  /\ ev.sent = 2
  /\ F.v = 2

\* a tail resume, or a resume, through record r that was not stopped
MultiTailStep(r) ==
  ev'.op = "resume_tail" /\ ev'.h = <<"multi", r>> /\ ev'.ret \notin {"abort", "fault"}

MultiResumeStep(r) ==
  ev'.op = "resume" /\ ev'.h = <<"multi", r>> /\ ev'.ret \notin {"abort", "fault"}

\* the step leaves the library's state as H has it
SameAs(H) ==
  /\ top' = H.top
  /\ cur' = H.cur
  /\ pr' = H.pr
  /\ stk' = H.stk
  /\ mr' = H.mr
  /\ mrfree' = H.mrfree
  /\ gs' = H.gs
  /\ gfree' = H.gfree
  /\ ev'.fails = H.ev.fails

\* a tail resume through r that finds a cached return point clears it, counts
\* the resume and links the prompt against it: no activation of
\* mp_prompt_resume is added
FirstTail(r) ==
  (MultiTailStep(r) /\ mr[r].tail_return_point # Null) =>
    /\ ev'.tail
    /\ mr'[r].tail_return_point = Null
    /\ mr'[r].resume_count = mr[r].resume_count + 1
    /\ pr'[mr[r].prompt].return_point = mr[r].tail_return_point
    /\ ev'.linked = <<mr[r].prompt>>
    /\ Len(stk'[cur]) <= Len(stk[cur])

\* a tail resume through r that finds none does what mp_resume does on the
\* same handle: the return point is a fresh activation of mp_prompt_resume
LaterTail(r) ==
  (MultiTailStep(r) /\ mr[r].tail_return_point = Null) =>
    /\ ~ev'.tail
    /\ SameAs(mp_resume(Use(StartWith("resume", ev'.h, ev'.sent), 1), ev'.h, ev'.sent))
    /\ pr'[mr[r].prompt].return_point = <<cur, Len(stk[cur]) + 1>>
    /\ mr'[r].tail_return_point = Null

\* the cached return point is the prompt's return point when the record is
\* made; a resume through r leaves it alone and stores a fresh return point
\* in the prompt; nothing but a tail resume through r changes it, and once
\* cleared it stays cleared
Cached(r) ==
  /\ (r = nmr + 1 /\ nmr' = r) =>
       mr'[r].tail_return_point = pr'[mr'[r].prompt].return_point
  /\ MultiResumeStep(r) =>
       /\ mr'[r].tail_return_point = mr[r].tail_return_point
       /\ pr'[mr[r].prompt].return_point = <<cur, Len(stk[cur]) + 1>>
  /\ (r \in 1 .. nmr /\ ~MultiTailStep(r)) =>
       mr'[r].tail_return_point = mr[r].tail_return_point
  /\ (r \in 1 .. nmr /\ mr[r].tail_return_point = Null) =>
       mr'[r].tail_return_point = Null

TailAsserts ==
  {"resume_tail: refcount == 1", "resume_tail: !active",
   "resume_tail: resume_point != NULL"}

\* C23: whenever a tail resume goes through mp_prompt_resume_tail, on a
\* once-resumption or on a record with a cached return point, the prompt is
\* suspended, its refcount is 1 and its resume point is set: none of the
\* three assertions fails.
C23_TailAsserts ==
  (ev.tail /\ ~ev.misuse) => Range(ev.fails) \cap TailAsserts = {}

====
